---- MODULE Spec2Model ----
(***************************************************************************)
(* Bundestag Codex: the resilient fetch (services/bundestag smartFetch),   *)
(* the paginated protocol search of App (handleSearch) and the analysis    *)
(* panel (AnalysisPanel: summary, deep analysis, investigator chat) with   *)
(* the analysis cache of App (updateCache).                                *)
(*                                                                         *)
(* Every await of the source is a suspension point: the synchronous part   *)
(* of a handler up to its await is one action, and the continuation that   *)
(* runs when the awaited promise settles is another action.  React state   *)
(* setters called in one synchronous run are applied together.             *)
(***************************************************************************)
EXTENDS Integers, Sequences, FiniteSets, TLC

VARIABLES
    \* ---- smartFetch (one call) ----
    fpc,            \* "idle" | "direct" | "proxy" | "done"
    attempts,       \* the HTTP requests issued by the call, in order
    fetchResult,    \* what the call's promise settled with
    \* ---- App: protocol search ----
    mounted,        \* the initial-load effect has run
    protocols,      \* useState<PlenarprotokollText[]>: the held document set
    cursor,         \* useState<string | undefined>
    loading,        \* useState(false)
    loadingMore,    \* useState(false)
    error,          \* useState<string | null>
    searchParams,   \* useState<SearchParams> (wahlperiode; the filters)
    selectedProtocol, \* useState<PlenarprotokollText | null> (its id)
    requests,       \* fetchProtocols calls in flight
    nextReq,        \* issue order of the handleSearch calls
    lastFresh,      \* issue number of the latest handleSearch(false)
    lastSettled,    \* the fetchProtocols call that settled last, and how
    \* ---- App: analysis cache; AnalysisPanel ----
    analysisCache,  \* useState<AnalysisCache>
    geminiKey,      \* apiKeys.geminiKey
    mode,           \* 'overview' | 'investigator'
    loadingAction,  \* 'summary' | 'deep' | 'chat' | null
    chatSession,    \* Chat | null
    messages,       \* ChatMessage[]
    input,          \* the chat input's text
    tasks,          \* handler continuations waiting on an await
    nextOp,         \* issue order of the panel's handler calls
    lastCacheWrite, \* the latest onUpdateCache call
    \* ---- App: key verification (one handleVerifyGemini call) ----
    verifyingKey,       \* useState(false)
    verificationResult, \* useState<{bundestag, flash, pro, message?} | null>
    flashProbe,         \* the generateContent probe of the flash tier
    proProbe,           \* the generateContent probe of the pro tier
    geminiVerdict,      \* what verifyGeminiKey's promise settled with
    bundestagVerdict,   \* what the smartFetch of verifyBundestagKey settled with
    \* ---- services/gemini: the text an operation puts into its request ----
    protocolText,       \* protocol.text handed to the operation
    prompt              \* the operation called last and the text it sent

fetchVars  == <<fpc, attempts, fetchResult>>
searchVars == <<mounted, protocols, cursor, loading, loadingMore, error,
                searchParams, requests, nextReq, lastFresh, lastSettled>>
panelVars  == <<analysisCache, geminiKey, mode, loadingAction, chatSession,
                messages, input, tasks, nextOp, lastCacheWrite>>
verifyVars == <<verifyingKey, verificationResult, flashProbe, proProbe,
                geminiVerdict, bundestagVerdict>>
promptVars == <<protocolText, prompt>>
vars == <<fetchVars, searchVars, selectedProtocol, panelVars, verifyVars, promptVars>>

Null == "null"
Undefined == "undefined"

(***************************************************************************)
(* smartFetch                                                              *)
(***************************************************************************)

\* The urls smartFetch is called with (list query, single resource).
Urls == {"plenarprotokoll-text", "plenarprotokoll-text/id"}
ApiKeys == {"k1", "k2"}

\* HTTP statuses a reachable server answers with.
Statuses == {200, 204, 403, 404, 500}
\* An attempt that threw has no status; one in flight has none yet.
Threw == 0
Pending == -1

\* Response.ok: the status is in the range 200-299.
ResponseOk(status) == status \in 200..299

\* urlObj.searchParams.append('apikey', apiKey); urlObj.toString()
TargetUrl(url, apiKey) == [via |-> "direct", url |-> url, apikey |-> apiKey]

\* `${PROXY_URL}${encodeURIComponent(targetUrl)}`
ProxyTarget(targetUrl) == [targetUrl EXCEPT !.via = "proxy"]

ConnectionMsg == "Verbindung zum Bundestag konnte nicht hergestellt werden."
ProxyApiMsg == "API Fehler via Proxy"
SyntaxErrorMsg == "SyntaxError"
NoStatus == 0

Json == [kind |-> "json", message |-> "", status |-> NoStatus]
Rejected(message, status) == [kind |-> "error", message |-> message, status |-> status]
NoResult == [kind |-> "none", message |-> "", status |-> NoStatus]

\* response.json() is returned without await: its rejection leaves the
\* function un-caught by the surrounding try.
ResponseJson(bodyParses) ==
    IF bodyParses THEN Json ELSE Rejected(SyntaxErrorMsg, NoStatus)

FetchInit ==
    /\ fpc = "idle"
    /\ attempts = <<>>
    /\ fetchResult = NoResult

\* lines 10-18: build the target and issue the direct request.
SmartFetch(url, apiKey) ==
    /\ fpc = "idle"
    /\ attempts' = <<[target |-> TargetUrl(url, apiKey), outcome |-> Pending]>>
    /\ fpc' = "direct"
    /\ UNCHANGED <<fetchResult, searchVars, selectedProtocol, panelVars, verifyVars, promptVars>>

IssueProxy(log) ==
    Append(log, [target |-> ProxyTarget(log[1].target), outcome |-> Pending])

\* A catch block that lets the error of the proxy try block through.
RethrowProxyCatch(e) == e

\* lines 36-40: whatever the proxy try block threw becomes the fixed message.
ProxyCatch(e) == Rejected(ConnectionMsg, NoStatus)

\* lines 15-24: the direct attempt settles.
DirectSettles(outcome, bodyParses) ==
    /\ fpc = "direct"
    /\ LET log == [attempts EXCEPT ![1].outcome = outcome]
       IN IF outcome # Threw /\ ResponseOk(outcome)
          THEN /\ attempts' = log
               /\ fetchResult' = ResponseJson(bodyParses)
               /\ fpc' = "done"
          ELSE \* thrown (caught, line 20) or not ok: go on to the proxy
               /\ attempts' = IssueProxy(log)
               /\ fpc' = "proxy"
               /\ UNCHANGED fetchResult
    /\ UNCHANGED <<searchVars, selectedProtocol, panelVars, verifyVars, promptVars>>

\* lines 26-41: the proxy attempt settles.
ProxySettles(outcome, bodyParses) ==
    /\ fpc = "proxy"
    /\ attempts' = [attempts EXCEPT ![2].outcome = outcome]
    /\ fetchResult' =
         IF outcome = Threw
         THEN ProxyCatch(Rejected("fetch failed", NoStatus))
         ELSE IF ~ResponseOk(outcome)
         THEN ProxyCatch(Rejected(ProxyApiMsg, outcome))
         ELSE ResponseJson(bodyParses)
    /\ fpc' = "done"
    /\ UNCHANGED <<searchVars, selectedProtocol, panelVars, verifyVars, promptVars>>

FetchNext ==
    \/ \E url \in Urls, apiKey \in ApiKeys : SmartFetch(url, apiKey)
    \/ \E outcome \in Statuses \cup {Threw}, bodyParses \in BOOLEAN :
          DirectSettles(outcome, bodyParses)
    \/ \E outcome \in Statuses \cup {Threw}, bodyParses \in BOOLEAN :
          ProxySettles(outcome, bodyParses)

(***************************************************************************)
(* The document API as fetchProtocols sees it                              *)
(***************************************************************************)

\* Bounds of the model.
MaxPages == 2       \* pages of the largest result set
PageSize == 2       \* documents of a full page (the request's limit)
MaxReq == 4         \* handleSearch calls of a behaviour

\* The legislative periods searched (options of the select).
Wahlperioden == {19, 20, 21}

\* Result pages the server holds per period: one period has several pages,
\* one a single page, one no match at all.
NumPages(wp) == IF wp = 21 THEN MaxPages ELSE IF wp = 20 THEN 1 ELSE 0

NoDoc == <<0, 0, 0>>
UndefinedCursor == [wp |-> 0, page |-> 0]

\* documents of page k of the result set of wp, in server order; document
\* ids are unique over the whole server.
ServerDocuments(wp, k) ==
    IF k \in 1..NumPages(wp) THEN [i \in 1..PageSize |-> <<wp, k, i>>] ELSE <<>>

\* cursor of the response for page k: absent on the last page.
ServerCursor(wp, k) ==
    IF k < NumPages(wp) THEN [wp |-> wp, page |-> k + 1] ELSE UndefinedCursor

\* The page a request asks for: the first one without a cursor.
RequestedPage(req) == IF req.cursor = UndefinedCursor THEN 1 ELSE req.cursor.page

\* PlenarprotokollTextListResponse for a request the server accepts.
ServerResponse(req) ==
    [documents |-> ServerDocuments(req.wahlperiode, RequestedPage(req)),
     cursor |-> ServerCursor(req.wahlperiode, RequestedPage(req))]

\* The server accepts a cursor only with the query it issued it for.
ServerAccepts(req) ==
    req.cursor = UndefinedCursor \/ req.cursor.wp = req.wahlperiode

(***************************************************************************)
(* App: handleSearch and the controls that call it                         *)
(***************************************************************************)

NoSession == [doc |-> NoDoc, op |-> 0]

\* AnalysisPanel lines 113-119: the effect on a change of protocol.id.
ResetEffect ==
    /\ chatSession' = NoSession
    /\ messages' = <<>>
    /\ mode' = "overview"
    /\ loadingAction' = Null

\* setSelectedProtocol(p), and the panel's effect when the id changes.
SetSelectedProtocol(p) ==
    /\ selectedProtocol' = p
    /\ IF p # selectedProtocol
       THEN ResetEffect
       ELSE UNCHANGED <<chatSession, messages, mode, loadingAction>>
    /\ UNCHANGED <<analysisCache, geminiKey, input, tasks, nextOp, lastCacheWrite>>

NoDocsMsg == "Keine Protokolle fuer diese Kriterien gefunden."
FormatMsg == "Unerwartetes Antwortformat von der API."

SearchInit ==
    /\ mounted = FALSE
    /\ protocols = <<>>
    /\ cursor = UndefinedCursor
    /\ loading = FALSE
    /\ loadingMore = FALSE
    /\ error = Null
    /\ searchParams = [wahlperiode |-> 21]
    /\ requests = {}
    /\ nextReq = 1
    /\ lastFresh = 0
    /\ lastSettled = [id |-> 0, ok |-> FALSE]

\* A list that offers load more whatever the cursor.
AlwaysHasMore == TRUE

\* ProtocolList: hasMore={!!cursor}
hasMore == cursor # UndefinedCursor

\* ProtocolList renders the load-more button below a non-empty list only,
\* when hasMore, and disables it while loadingMore.
LoadMoreAvailable == Len(protocols) > 0 /\ hasMore /\ ~loadingMore

\* lines 64-75: handleSearch up to the await of fetchProtocols.
HandleSearchStart(isLoadMore) ==
    /\ nextReq <= MaxReq
    /\ IF isLoadMore
       THEN /\ loadingMore' = TRUE
            /\ UNCHANGED <<loading, cursor, lastFresh>>
       ELSE /\ loading' = TRUE
            /\ cursor' = UndefinedCursor
            /\ lastFresh' = nextReq
            /\ UNCHANGED loadingMore
    /\ error' = Null
    /\ requests' = requests \cup
          {[id |-> nextReq, isLoadMore |-> isLoadMore,
            wahlperiode |-> searchParams.wahlperiode,
            cursor |-> IF isLoadMore THEN cursor ELSE UndefinedCursor]}
    /\ nextReq' = nextReq + 1
    /\ UNCHANGED <<protocols, searchParams, selectedProtocol, lastSettled>>
    /\ UNCHANGED <<fetchVars, panelVars, verifyVars, promptVars>>

\* lines 130-133: the effect on mount and on each change of the key.
InitialLoadEffect ==
    /\ HandleSearchStart(FALSE)
    /\ mounted' = TRUE

\* line 223: Enter in the search field.
SearchInputEnter ==
    /\ mounted
    /\ HandleSearchStart(FALSE)
    /\ UNCHANGED mounted

\* lines 227-229: the search button, disabled while loading.
ClickSearchButton ==
    /\ mounted
    /\ ~loading
    /\ HandleSearchStart(FALSE)
    /\ UNCHANGED mounted

\* ProtocolList lines 65-68 with App line 250.
ClickLoadMore ==
    /\ mounted
    /\ LoadMoreAvailable
    /\ HandleSearchStart(TRUE)
    /\ UNCHANGED mounted

\* line 201: the select sets the period of the next requests.
SetSearchParams(wp) ==
    /\ mounted
    /\ wp # searchParams.wahlperiode
    /\ searchParams' = [searchParams EXCEPT !.wahlperiode = wp]
    /\ UNCHANGED <<mounted, protocols, cursor, loading, loadingMore, error,
                   selectedProtocol, requests, nextReq, lastFresh, lastSettled>>
    /\ UNCHANGED <<fetchVars, panelVars, verifyVars, promptVars>>

\* A load more that replaces the held set like a fresh search does.
ReplaceProtocols(prev, isLoadMore, documents) == documents

\* lines 77-80: setProtocols((prev) => [...prev, ...documents]) for a load
\* more, setProtocols(documents) for a fresh search.
SetProtocols(prev, isLoadMore, documents) ==
    IF isLoadMore THEN prev \o documents ELSE documents

\* lines 76-88 and 95-98: fetchProtocols resolved with a documents field.
SearchResolves(req, wide) ==
    /\ req \in requests
    /\ ServerAccepts(req)
    /\ LET data == ServerResponse(req)
       IN /\ protocols' = SetProtocols(protocols, req.isLoadMore, data.documents)
          /\ IF ~req.isLoadMore /\ Len(data.documents) > 0 /\ wide
             THEN SetSelectedProtocol(data.documents[1])
             ELSE UNCHANGED <<selectedProtocol, panelVars>>
          /\ cursor' = data.cursor
          /\ error' = IF ~req.isLoadMore /\ Len(data.documents) = 0
                      THEN NoDocsMsg
                      ELSE error
    /\ loading' = FALSE
    /\ loadingMore' = FALSE
    /\ requests' = requests \ {req}
    /\ lastSettled' = [id |-> req.id, ok |-> TRUE]
    /\ UNCHANGED <<mounted, searchParams, nextReq, lastFresh, fetchVars, verifyVars, promptVars>>

\* A failure handled like the start of a fresh search: the held set and the
\* cursor are dropped together with the error being set.
SearchFailsClearing(req, message) ==
    /\ req \in requests
    /\ error' = message
    /\ protocols' = <<>>
    /\ cursor' = UndefinedCursor
    /\ loading' = FALSE
    /\ loadingMore' = FALSE
    /\ requests' = requests \ {req}
    /\ lastSettled' = [id |-> req.id, ok |-> FALSE]
    /\ UNCHANGED <<mounted, searchParams, selectedProtocol, nextReq, lastFresh>>
    /\ UNCHANGED <<fetchVars, panelVars, verifyVars, promptVars>>

\* lines 89-98: the response has no documents field, or fetchProtocols
\* rejected (smartFetch threw): only the error is set.
SearchFails(req, message) ==
    /\ req \in requests
    /\ error' = message
    /\ loading' = FALSE
    /\ loadingMore' = FALSE
    /\ requests' = requests \ {req}
    /\ lastSettled' = [id |-> req.id, ok |-> FALSE]
    /\ UNCHANGED <<mounted, protocols, cursor, searchParams, selectedProtocol,
                   nextReq, lastFresh>>
    /\ UNCHANGED <<fetchVars, panelVars, verifyVars, promptVars>>

SearchNext ==
    \/ ClickSearchButton
    \/ SearchInputEnter
    \/ InitialLoadEffect
    \/ ClickLoadMore
    \/ \E wp \in Wahlperioden : SetSearchParams(wp)
    \/ \E req \in requests, wide \in BOOLEAN : SearchResolves(req, wide)
    \/ \E req \in requests, message \in {FormatMsg, ConnectionMsg} :
          SearchFails(req, message)


(***************************************************************************)
(* services/gemini as the panel's handlers see it                          *)
(***************************************************************************)

MaxOps == 3         \* handler calls of the panel in a behaviour

\* The protocols the panel is opened for (two documents of the list).
PanelDocs == {<<21, 1, 1>>, <<21, 1, 2>>}

\* process.env.GEMINI_API_KEY || process.env.API_KEY of the browser build.
EnvGeminiKey == ""

\* getClient: throws unless a key is given or built in.
GetClientThrows(apiKey) == apiKey = "" /\ EnvGeminiKey = ""

\* How a generateContent / sendMessage call settles: with a text, with an
\* empty text, or rejected.
ModelOutcomes == {"text", "empty", "rejected"}

SummaryPlaceholder == "Zusammenfassung konnte nicht erstellt werden (API Fehler)."
SummaryDefault == "Keine Zusammenfassung generiert."
AnalysisDefault == "Keine Analyse generiert."

Returned(value) == [threw |-> FALSE, value |-> value]
Thrown == [threw |-> TRUE, value |-> ""]

\* generateFastSummary, lines 57-84.
generateFastSummary(apiKey, outcome) ==
    IF GetClientThrows(apiKey) THEN Thrown
    ELSE IF outcome = "rejected" THEN Returned(SummaryPlaceholder)
    ELSE IF outcome = "empty" THEN Returned(SummaryDefault)
    ELSE Returned("summary")

\* generateDeepAnalysis, lines 86-122.
generateDeepAnalysis(apiKey, outcome) ==
    IF GetClientThrows(apiKey) THEN Thrown
    ELSE IF outcome = "rejected" THEN Thrown
    ELSE IF outcome = "empty" THEN Returned(AnalysisDefault)
    ELSE Returned("analysis")

(***************************************************************************)
(* App: the analysis cache                                                 *)
(***************************************************************************)

Absent == [from |-> NoDoc, text |-> ""]
EmptyEntry == [summary |-> Absent, deepAnalysis |-> Absent]
CacheFields == {"summary", "deepAnalysis"}

\* A merge that replaces the entry by the update.
OverwriteEntry(entry, data) ==
    [f \in CacheFields |-> IF f \in DOMAIN data THEN data[f] ELSE Absent]

\* { ...prev[id], ...data }: the fields of data overwrite, the others stay.
MergeEntry(entry, data) ==
    [f \in CacheFields |-> IF f \in DOMAIN data THEN data[f] ELSE entry[f]]

\* An update that forgets the entries of the other documents.
ForgetOtherEntries(cache, id, data) ==
    [d \in DOMAIN cache |-> IF d = id THEN MergeEntry(cache[d], data) ELSE EmptyEntry]

\* updateCache, lines 57-62.
updateCache(cache, id, data) ==
    [cache EXCEPT ![id] = MergeEntry(cache[id], data)]

\* const currentCache = cache[protocol.id] || {}
currentCache == analysisCache[selectedProtocol]

(***************************************************************************)
(* AnalysisPanel                                                           *)
(***************************************************************************)

NoWrite == [id |-> NoDoc, field |-> "", op |-> 0, modelCall |-> ""]

PanelInit ==
    /\ analysisCache = [d \in PanelDocs |-> EmptyEntry]
    /\ geminiKey = ""
    /\ mode = "overview"
    /\ loadingAction = Null
    /\ chatSession = NoSession
    /\ messages = <<>>
    /\ input = ""
    /\ tasks = {}
    /\ nextOp = 1
    /\ lastCacheWrite = NoWrite

\* The continuation of a handler call waiting on an await.  doc and key are
\* protocol and apiKeys of the render the handler was called in.
Task(kind, session) ==
    [op |-> nextOp, kind |-> kind, doc |-> selectedProtocol,
     key |-> geminiKey, session |-> session]

\* App lines 246-249: a list item is clicked.
OnSelect(p) ==
    /\ SetSelectedProtocol(p)
    /\ UNCHANGED <<fetchVars, verifyVars, promptVars, searchVars>>

\* lines 225 and 233: the mode buttons.
SetMode(m) ==
    /\ m # mode
    /\ mode' = m
    /\ UNCHANGED <<fetchVars, verifyVars, promptVars, searchVars, selectedProtocol, analysisCache, geminiKey, loadingAction,
                   chatSession, messages, input, tasks, nextOp, lastCacheWrite>>

\* App line 346: the key field of the settings dialog.
SetGeminiKey(k) ==
    /\ k # geminiKey
    /\ geminiKey' = k
    /\ UNCHANGED <<fetchVars, verifyVars, promptVars, searchVars, selectedProtocol, analysisCache, mode, loadingAction,
                   chatSession, messages, input, tasks, nextOp, lastCacheWrite>>

\* lines 405-411: typing into the chat input, disabled while a chat loads.
SetInput(text) ==
    /\ mode = "investigator"
    /\ loadingAction # "chat"
    /\ text # input
    /\ input' = text
    /\ UNCHANGED <<fetchVars, verifyVars, promptVars, searchVars, selectedProtocol, analysisCache, geminiKey, mode,
                   loadingAction, chatSession, messages, tasks, nextOp,
                   lastCacheWrite>>

\* lines 127-131 behind the button of lines 258-275.
HandleGenerateSummary ==
    /\ nextOp <= MaxOps
    /\ mode = "overview"
    /\ currentCache.summary = Absent
    /\ loadingAction # "summary"
    /\ loadingAction' = "summary"
    /\ tasks' = tasks \cup {Task("summary", NoSession)}
    /\ nextOp' = nextOp + 1
    /\ UNCHANGED <<fetchVars, verifyVars, promptVars, searchVars, selectedProtocol, analysisCache, geminiKey, mode,
                   chatSession, messages, input, lastCacheWrite>>

\* lines 140-144 behind the button of lines 291-330.
HandleDeepAnalysis ==
    /\ nextOp <= MaxOps
    /\ mode = "overview"
    /\ currentCache.deepAnalysis = Absent
    /\ loadingAction # "deep"
    /\ loadingAction' = "deep"
    /\ tasks' = tasks \cup {Task("deep", NoSession)}
    /\ nextOp' = nextOp + 1
    /\ UNCHANGED <<fetchVars, verifyVars, promptVars, searchVars, selectedProtocol, analysisCache, geminiKey, mode,
                   chatSession, messages, input, lastCacheWrite>>

WriteToSelected(task) == selectedProtocol

\* lines 132 and 145: onUpdateCache(protocol.id, ...), protocol being the
\* one of the render the handler was called in.
WriteTarget(task) == task.doc

\* The rest of handleGenerateSummary / handleDeepAnalysis once the service
\* call settled with result: the cache write unless it threw, and finally.
AnalysisSettled(task, field, result, outcome) ==
    /\ IF result.threw
       THEN UNCHANGED <<analysisCache, lastCacheWrite>>
       ELSE LET data == [f \in {field} |-> [from |-> task.doc, text |-> result.value]]
            IN /\ analysisCache' = updateCache(analysisCache, WriteTarget(task), data)
               /\ lastCacheWrite' = [id |-> WriteTarget(task), field |-> field,
                                      op |-> task.op, modelCall |-> outcome]
    /\ loadingAction' = Null
    /\ tasks' = tasks \ {task}
    /\ UNCHANGED <<fetchVars, verifyVars, promptVars, searchVars, selectedProtocol, geminiKey, mode, chatSession, messages,
                   input, nextOp>>

\* lines 131-137.
SummarySettles(task, outcome) ==
    /\ task \in tasks
    /\ task.kind = "summary"
    /\ AnalysisSettled(task, "summary",
                       generateFastSummary(task.key, outcome), outcome)

\* lines 144-150.
DeepAnalysisSettles(task, outcome) ==
    /\ task \in tasks
    /\ task.kind = "deep"
    /\ AnalysisSettled(task, "deepAnalysis",
                       generateDeepAnalysis(task.key, outcome), outcome)

Message(role, kind, task) ==
    [role |-> role, kind |-> kind, doc |-> task.doc, op |-> task.op]

\* The chat input and the send button accept a turn (lines 405-419).
ChatInputEnabled == loadingAction # "chat"

UserTurnNotShown(prev, userMsg) == prev

PrependUserTurn(prev, userMsg) == <<userMsg>> \o prev

\* line 168: setMessages((prev) => [...prev, userMsg])
AppendUserTurn(prev, userMsg) == Append(prev, userMsg)

CredentialAlwaysPresent(apiKey) == FALSE

\* line 155: !apiKeys.geminiKey
NoCredential(apiKey) == apiKey = ""

\* lines 153-179: handleSendMessage up to its first await.
HandleSendMessage ==
    /\ nextOp <= MaxOps
    /\ mode = "investigator"
    /\ ChatInputEnabled
    /\ input # ""
    /\ nextOp' = nextOp + 1
    /\ IF NoCredential(geminiKey)
       THEN /\ messages' = Append(messages,
                                  Message("model", "noKey", Task("chat", NoSession)))
            /\ UNCHANGED <<input, loadingAction, tasks>>
       ELSE /\ messages' = AppendUserTurn(messages,
                                  Message("user", "turn", Task("chat", NoSession)))
            /\ input' = ""
            /\ loadingAction' = "chat"
            /\ tasks' = tasks \cup
                  {IF chatSession = NoSession
                   THEN Task("create", NoSession)
                   ELSE Task("send", chatSession)}
    /\ UNCHANGED <<fetchVars, verifyVars, promptVars, searchVars, selectedProtocol, analysisCache, geminiKey, mode,
                   chatSession, lastCacheWrite>>

ChatFailsSilently(task) ==
    /\ loadingAction' = Null
    /\ tasks' = tasks \ {task}
    /\ UNCHANGED <<fetchVars, verifyVars, promptVars, searchVars, selectedProtocol, analysisCache, geminiKey, mode,
                   chatSession, messages, input, nextOp, lastCacheWrite>>

\* lines 190-203: the catch block and finally.
ChatFails(task) ==
    /\ messages' = Append(messages, Message("model", "error", task))
    /\ loadingAction' = Null
    /\ tasks' = tasks \ {task}
    /\ UNCHANGED <<fetchVars, verifyVars, promptVars, searchVars, selectedProtocol, analysisCache, geminiKey, mode,
                   chatSession, input, nextOp, lastCacheWrite>>

\* lines 175-179: createProtocolChat settles; on success the handle is
\* stored and the turn is sent on it.
CreateSettles(task, created) ==
    /\ task \in tasks
    /\ task.kind = "create"
    /\ IF created /\ ~GetClientThrows(task.key)
       THEN LET session == [doc |-> task.doc, op |-> task.op]
            IN /\ chatSession' = session
               /\ tasks' = (tasks \ {task}) \cup
                      {[task EXCEPT !.kind = "send", !.session = session]}
               /\ UNCHANGED <<fetchVars, verifyVars, promptVars, searchVars, selectedProtocol, analysisCache, geminiKey, mode,
                              loadingAction, messages, input, nextOp,
                              lastCacheWrite>>
       ELSE ChatFails(task)

\* lines 179-203: session.sendMessage settles.
SendSettles(task, outcome) ==
    /\ task \in tasks
    /\ task.kind = "send"
    /\ IF outcome = "rejected"
       THEN ChatFails(task)
       ELSE /\ messages' = Append(messages, Message("model", "reply", task))
            /\ loadingAction' = Null
            /\ tasks' = tasks \ {task}
            /\ UNCHANGED <<fetchVars, verifyVars, promptVars, searchVars, selectedProtocol, analysisCache, geminiKey, mode,
                           chatSession, input, nextOp, lastCacheWrite>>

PanelNext ==
    \/ \E p \in PanelDocs : OnSelect(p)
    \/ \E m \in {"overview", "investigator"} : SetMode(m)
    \/ \E k \in {"", "key"} : SetGeminiKey(k)
    \/ \E text \in {"", "q"} : SetInput(text)
    \/ HandleGenerateSummary
    \/ HandleDeepAnalysis
    \/ \E task \in tasks, outcome \in ModelOutcomes : SummarySettles(task, outcome)
    \/ \E task \in tasks, outcome \in ModelOutcomes : DeepAnalysisSettles(task, outcome)
    \/ HandleSendMessage
    \/ \E task \in tasks, created \in BOOLEAN : CreateSettles(task, created)
    \/ \E task \in tasks, outcome \in ModelOutcomes : SendSettles(task, outcome)

(***************************************************************************)
(* Key verification: services/gemini verifyGeminiKey, services/bundestag   *)
(* verifyBundestagKey and App handleVerifyGemini                           *)
(***************************************************************************)

\* A probe that is not issued, one that is awaited, and how a probe
\* settles: with a text, with an empty text, rejected, or rejected with a
\* message that holds 'not found' / 'NOT_FOUND'.
NoProbe == "none"
ProbePending == "pending"
ProbeOutcomes == {"text", "empty", "rejected", "notFound"}
Tiers == {"flash", "pro"}

ProbeRejected(outcome) == outcome \in {"rejected", "notFound"}

\* !!result.text
Truthy(outcome) == outcome = "text"

NoMessage == ""
NotFoundMsg == "Gemini 3.0 Modelle sind fuer diese API-Version/Region nicht verfuegbar."
ProbeErrorMsg(tier) == "error.message of the " \o tier \o " probe"

\* lines 49-52 of verifyGeminiKey: the message of the catch.
ProbeMessage(tier, outcome) ==
    IF outcome = "notFound" THEN NotFoundMsg ELSE ProbeErrorMsg(tier)

NoVerdict == [state |-> "none", flash |-> FALSE, pro |-> FALSE, message |-> NoMessage]
VerdictPending == [NoVerdict EXCEPT !.state = "pending"]
GeminiVerdict(flash, pro, message) ==
    [state |-> "returned", flash |-> flash, pro |-> pro, message |-> message]

\* verifyGeminiKey, lines 28-55, when the probe of tier settles: Promise.all
\* rejects with the first rejection and resolves when both probes resolved.
verifyGeminiKey(verdict, flash, pro, tier) ==
    LET outcome == IF tier = "flash" THEN flash ELSE pro
    IN IF verdict.state # "pending" THEN verdict
       ELSE IF ProbeRejected(outcome)
       THEN GeminiVerdict(FALSE, FALSE, ProbeMessage(tier, outcome))
       ELSE IF flash # ProbePending /\ pro # ProbePending
       THEN GeminiVerdict(Truthy(flash), Truthy(pro), NoMessage)
       ELSE verdict

\* What the smartFetch call of verifyBundestagKey can settle with.
FetchPending == [kind |-> "pending", message |-> "", status |-> NoStatus]
FetchResults ==
    {Json, Rejected(ConnectionMsg, NoStatus), Rejected(SyntaxErrorMsg, NoStatus)}

\* verifyBundestagKey, lines 77-84: true unless smartFetch threw.
verifyBundestagKey(fetched) == fetched.kind = "json"

NoVerification ==
    [set |-> FALSE, bundestag |-> FALSE, flash |-> FALSE, pro |-> FALSE,
     message |-> NoMessage]

BundestagNeedsGemini(bundestagOk, gemini) ==
    bundestagOk /\ gemini.flash /\ gemini.pro

\* line 110: bundestag: bundestagOk
ReportedBundestag(bundestagOk, gemini) == bundestagOk

\* lines 109-115: the result set from the two resolved promises.
VerificationOf(bundestagOk, gemini) ==
    [set |-> TRUE, bundestag |-> ReportedBundestag(bundestagOk, gemini),
     flash |-> gemini.flash, pro |-> gemini.pro, message |-> gemini.message]

\* lines 116-123: the result set by the catch.
VerificationFailed(message) ==
    [set |-> TRUE, bundestag |-> FALSE, flash |-> FALSE, pro |-> FALSE,
     message |-> message]

VerifyInit ==
    /\ verifyingKey = FALSE
    /\ verificationResult = NoVerification
    /\ flashProbe = NoProbe
    /\ proProbe = NoProbe
    /\ geminiVerdict = NoVerdict
    /\ bundestagVerdict = NoResult

\* lines 101-108 behind the button of lines 355-356: both verifications are
\* started.  Probes of an earlier call that are still pending are dropped
\* from the state: nothing awaits them any more.
HandleVerifyGemini ==
    /\ ~NoCredential(geminiKey)
    /\ ~verifyingKey
    /\ verifyingKey' = TRUE
    /\ bundestagVerdict' = FetchPending
    /\ flashProbe' = ProbePending
    /\ proProbe' = ProbePending
    /\ geminiVerdict' = VerdictPending
    /\ UNCHANGED verificationResult
    /\ UNCHANGED <<fetchVars, searchVars, selectedProtocol, panelVars, promptVars>>

\* lines 105-125 once the outer Promise.all settled: it rejects as soon as
\* verifyBundestagKey rejects and resolves when both promises resolved.
VerifyJoin(fetched, gemini) ==
    IF ~verifyingKey
    THEN UNCHANGED <<verifyingKey, verificationResult>>
    ELSE IF fetched.kind = "error"
    THEN /\ verificationResult' = VerificationFailed(fetched.message)
         /\ verifyingKey' = FALSE
    ELSE IF fetched.kind = "json" /\ gemini.state = "returned"
    THEN /\ verificationResult' = VerificationOf(verifyBundestagKey(fetched), gemini)
         /\ verifyingKey' = FALSE
    ELSE UNCHANGED <<verifyingKey, verificationResult>>

\* A probe of verifyGeminiKey settles.
ProbeSettles(tier, outcome) ==
    /\ IF tier = "flash" THEN flashProbe = ProbePending ELSE proProbe = ProbePending
    /\ flashProbe' = IF tier = "flash" THEN outcome ELSE flashProbe
    /\ proProbe' = IF tier = "pro" THEN outcome ELSE proProbe
    /\ geminiVerdict' = verifyGeminiKey(geminiVerdict, flashProbe', proProbe', tier)
    /\ VerifyJoin(bundestagVerdict, geminiVerdict')
    /\ UNCHANGED bundestagVerdict
    /\ UNCHANGED <<fetchVars, searchVars, selectedProtocol, panelVars, promptVars>>

\* The smartFetch call of verifyBundestagKey settles.
BundestagSettles(fetched) ==
    /\ bundestagVerdict = FetchPending
    /\ bundestagVerdict' = fetched
    /\ VerifyJoin(fetched, geminiVerdict)
    /\ UNCHANGED <<flashProbe, proProbe, geminiVerdict>>
    /\ UNCHANGED <<fetchVars, searchVars, selectedProtocol, panelVars, promptVars>>

VerifyNext ==
    \/ \E k \in {"", "key"} : SetGeminiKey(k)
    \/ HandleVerifyGemini
    \/ \E tier \in Tiers, outcome \in ProbeOutcomes : ProbeSettles(tier, outcome)
    \/ \E fetched \in FetchResults : BundestagSettles(fetched)

(***************************************************************************)
(* services/gemini: truncateText and the operations that apply it          *)
(***************************************************************************)

Ceiling == 2        \* stands for the 1_500_000 characters of truncateText
MaxLen == 4         \* longest protocol text drawn

Alphabet == {"a", "b"}
Texts == UNION {[1..n -> Alphabet] : n \in 0..MaxLen}

\* '... [Text gekuerzt bei 1.5 Mio Zeichen]'
Marker == <<".", ".", ".", " ", "[Text gekuerzt bei 1.5 Mio Zeichen]">>

\* A truncation that also cuts a text of exactly the ceiling's length.
TruncateFromCeiling(t) ==
    IF Len(t) >= Ceiling THEN SubSeq(t, 1, Ceiling) \o Marker ELSE t

\* truncateText, lines 17-20.
truncateText(t) ==
    IF Len(t) > Ceiling THEN SubSeq(t, 1, Ceiling) \o Marker ELSE t

\* The operations that put the protocol text into a request: fast summary
\* (line 68), deep analysis (line 99) and chat creation (line 143).
Operations == {"summary", "deep", "chat"}

NoPrompt == [op |-> "none", sent |-> <<>>]

\* No operation has been called.
PromptInit ==
    /\ protocolText = <<>>
    /\ prompt = NoPrompt

\* generateFastSummary / generateDeepAnalysis / createProtocolChat build
\* their request from the text they are given.
BuildPrompt(op) ==
    /\ prompt' = [op |-> op, sent |-> truncateText(protocolText)]
    /\ UNCHANGED protocolText
    /\ UNCHANGED <<fetchVars, searchVars, selectedProtocol, panelVars, verifyVars>>

PromptNext == \E op \in Operations : BuildPrompt(op)

(***************************************************************************)
(* Specifications                                                          *)
(***************************************************************************)

\* No protocol selected: the panel is not rendered.
Init ==
    /\ FetchInit /\ SearchInit /\ PanelInit /\ VerifyInit /\ PromptInit
    /\ selectedProtocol = NoDoc

\* One smartFetch call.
SpecFetch == Init /\ [][FetchNext]_vars

\* App's search.  The panel's state stays as its reset effect leaves it.
SpecSearch == Init /\ [][SearchNext]_vars

\* The panel opened on the first protocol of a loaded first page.
PanelOpenInit ==
    /\ FetchInit /\ PanelInit /\ VerifyInit /\ PromptInit
    /\ mounted = TRUE
    /\ protocols = ServerDocuments(21, 1)
    /\ cursor = ServerCursor(21, 1)
    /\ loading = FALSE
    /\ loadingMore = FALSE
    /\ error = Null
    /\ searchParams = [wahlperiode |-> 21]
    /\ selectedProtocol = ServerDocuments(21, 1)[1]
    /\ requests = {}
    /\ nextReq = 2
    /\ lastFresh = 1
    /\ lastSettled = [id |-> 1, ok |-> TRUE]

SpecPanel == PanelOpenInit /\ [][PanelNext]_vars

\* The settings dialog: the key field and the verification button.
SpecVerify == Init /\ [][VerifyNext]_vars

\* An operation of services/gemini called with any protocol text.
PromptOpenInit ==
    /\ FetchInit /\ SearchInit /\ PanelInit /\ VerifyInit
    /\ selectedProtocol = NoDoc
    /\ protocolText \in Texts
    /\ prompt = NoPrompt

SpecPrompt == PromptOpenInit /\ [][PromptNext]_vars

\* updateCache called with any partial update for any document: the
\* artifacts an update can carry, the partial updates, and the call.
CacheValues == {[from |-> d, text |-> t] : d \in PanelDocs, t \in {"a", "b"}}
PartialUpdates ==
    UNION {[fields -> CacheValues] : fields \in (SUBSET CacheFields) \ {{}}}

UpdateCache(id, data) ==
    /\ analysisCache' = updateCache(analysisCache, id, data)
    /\ UNCHANGED <<geminiKey, mode, loadingAction, chatSession, messages, input,
                   tasks, nextOp, lastCacheWrite>>
    /\ UNCHANGED <<fetchVars, verifyVars, promptVars, searchVars, selectedProtocol>>

CacheNext == \E id \in PanelDocs, data \in PartialUpdates : UpdateCache(id, data)

SpecCache == PanelOpenInit /\ [][CacheNext]_vars

\* The investigator of the opened panel with a key entered in the settings:
\* the steps of the chat, the awaited call of every turn settling at some
\* time (the client library settles a pending createProtocolChat or
\* sendMessage promise with a result or a rejection).
ChatOpenInit ==
    /\ FetchInit /\ VerifyInit /\ PromptInit
    /\ mounted = TRUE
    /\ protocols = ServerDocuments(21, 1)
    /\ cursor = ServerCursor(21, 1)
    /\ loading = FALSE
    /\ loadingMore = FALSE
    /\ error = Null
    /\ searchParams = [wahlperiode |-> 21]
    /\ selectedProtocol = ServerDocuments(21, 1)[1]
    /\ requests = {}
    /\ nextReq = 2
    /\ lastFresh = 1
    /\ lastSettled = [id |-> 1, ok |-> TRUE]
    /\ analysisCache = [d \in PanelDocs |-> EmptyEntry]
    /\ geminiKey = "key"
    /\ mode = "overview"
    /\ loadingAction = Null
    /\ chatSession = NoSession
    /\ messages = <<>>
    /\ input = ""
    /\ tasks = {}
    /\ nextOp = 1
    /\ lastCacheWrite = NoWrite

ChatNext ==
    \/ \E p \in PanelDocs : OnSelect(p)
    \/ \E m \in {"overview", "investigator"} : SetMode(m)
    \/ \E text \in {"", "q"} : SetInput(text)
    \/ HandleSendMessage
    \/ \E task \in tasks, created \in BOOLEAN : CreateSettles(task, created)
    \/ \E task \in tasks, outcome \in ModelOutcomes : SendSettles(task, outcome)

SpecChatLive ==
    /\ ChatOpenInit
    /\ [][ChatNext]_vars
    /\ WF_vars(\E task \in tasks, created \in BOOLEAN : CreateSettles(task, created))
    /\ WF_vars(\E task \in tasks, outcome \in ModelOutcomes : SendSettles(task, outcome))

(***************************************************************************)
(* Properties of smartFetch (checked under SpecFetch)                      *)
(***************************************************************************)

IsStatus(outcome) == outcome \in Statuses
NonSuccess(outcome) == IsStatus(outcome) /\ ~ResponseOk(outcome)

\* C2: the proxy request is issued only when the direct attempt threw or
\* network-failed, never after a direct response with a non-success status.
C2_DirectStatusNotRetried ==
    \A i \in 1..Len(attempts) :
        attempts[i].target.via = "proxy" => attempts[1].outcome = Threw

\* C3: once the call has ended, a non-2xx response of either transport has
\* reached the caller as an error that carries the numeric status and is
\* not the generic connection-failure message.
C3_StatusReachesCaller ==
    fpc = "done" =>
        \A i \in 1..Len(attempts) :
            NonSuccess(attempts[i].outcome) =>
                /\ fetchResult.kind = "error"
                /\ fetchResult.status = attempts[i].outcome
                /\ fetchResult.message # ConnectionMsg

\* C4: a call makes at most two attempts, the direct one first and the
\* proxy one at most once and never after a direct 2xx response; when the
\* proxy attempt fails too (no response, or a non-2xx one) the call ends
\* with the fixed connection-failure error, and an ended call has no
\* attempt left in flight.
C4_AtMostTwoAttempts ==
    /\ Len(attempts) <= 2
    /\ Len(attempts) >= 1 => attempts[1].target.via = "direct"
    /\ Len(attempts) = 2 =>
          /\ attempts[2].target.via = "proxy"
          /\ attempts[1].outcome # Pending
          /\ ~(IsStatus(attempts[1].outcome) /\ ResponseOk(attempts[1].outcome))
    /\ fpc = "done" =>
          /\ \A i \in 1..Len(attempts) : attempts[i].outcome # Pending
          /\ (Len(attempts) = 2 /\ (attempts[2].outcome = Threw
                                    \/ NonSuccess(attempts[2].outcome))) =>
                fetchResult = Rejected(ConnectionMsg, NoStatus)

\* C4 witness: both attempts were made, the proxy one failed with a status,
\* and the call ended with the fixed message.
C4_Witness ==
    /\ fpc = "done"
    /\ Len(attempts) = 2
    /\ attempts[1].outcome = Threw
    /\ attempts[2].outcome = 500
    /\ fetchResult.message = ConnectionMsg

(***************************************************************************)
(* Properties of the search (checked under SpecSearch)                     *)
(***************************************************************************)

\* The requests that settle in a step, and those that are issued in it.
Settling(req) == req \in requests /\ req \notin requests'
Issued(req) == req \in requests' /\ req \notin requests

\* C5: a step that starts a fresh search clears the cursor; a step in which
\* a fresh search succeeds sets the held set to exactly the returned page; a
\* step in which a load more succeeds keeps the held documents and appends
\* the returned page; both set the cursor to the one of the response.
C5_FreshReplacesLoadMoreAppends ==
    [][/\ (\E req \in requests' : Issued(req) /\ ~req.isLoadMore) =>
              cursor' = UndefinedCursor
       /\ \A req \in requests :
              (Settling(req) /\ lastSettled' = [id |-> req.id, ok |-> TRUE]) =>
                  /\ cursor' = ServerResponse(req).cursor
                  /\ IF req.isLoadMore
                     THEN /\ SubSeq(protocols', 1, Len(protocols)) = protocols
                          /\ protocols' = protocols \o ServerResponse(req).documents
                     ELSE protocols' = ServerResponse(req).documents
      ]_vars

\* C5 witness: the second page was appended to the first by a load more
\* that succeeded.
C5_Witness ==
    /\ protocols = ServerDocuments(21, 1) \o ServerDocuments(21, 2)
    /\ cursor = ServerCursor(21, 2)
    /\ lastSettled = [id |-> 2, ok |-> TRUE]

\* C6: when a load-more response resolves after a fresh search was started,
\* the stale page is discarded: the held set and the cursor stay as they are.
C6_StaleLoadMoreDiscarded ==
    [][\A req \in requests :
          (Settling(req) /\ req.isLoadMore /\ req.id < lastFresh) =>
              /\ protocols' = protocols
              /\ cursor' = cursor
      ]_vars

RECURSIVE ConcatPages(_, _)
ConcatPages(wp, k) ==
    IF k = 0 THEN <<>> ELSE ConcatPages(wp, k - 1) \o ServerDocuments(wp, k)

NoDuplicates(seq) ==
    \A i, j \in 1..Len(seq) : seq[i] = seq[j] => i = j

\* C7: the held set is the concatenation, in server order, of the first
\* pages of one query, and no document identifier occurs in it twice.
C7_PagesOfOneQueryOnce ==
    /\ NoDuplicates(protocols)
    /\ \E wp \in Wahlperioden : \E k \in 0..NumPages(wp) :
          protocols = ConcatPages(wp, k)

\* C8: a load-more request is issued only from a state that holds a cursor
\* (and it sends that cursor): with the cursor absent load more is
\* unavailable.
C8_NoLoadMoreWithoutCursor ==
    [][\A req \in requests' :
          (Issued(req) /\ req.isLoadMore) =>
              /\ cursor # UndefinedCursor
              /\ req.cursor = cursor
      ]_vars

\* C8 witness: the last page arrived without a cursor; the list is not
\* empty, nothing is loading, and load more is not offered.
C8_Witness ==
    /\ protocols = ServerDocuments(21, 1) \o ServerDocuments(21, 2)
    /\ cursor = UndefinedCursor
    /\ ~loadingMore /\ ~loading
    /\ requests = {}
    /\ nextReq <= MaxReq
    /\ ~LoadMoreAvailable


(***************************************************************************)
(* Properties of the panel and the cache (checked under SpecPanel)         *)
(***************************************************************************)

\* C1: an operation whose model call was rejected makes no updateCache
\* call, so no cache write ever stems from a rejected request.
C1_FailedOperationsLeaveCache ==
    lastCacheWrite.modelCall # "rejected"

\* The chat requests in flight that belong to the session shown: their user
\* turn is in the history.
ChatTasksOfSession ==
    {t \in tasks :
        /\ t.kind \in {"create", "send"}
        /\ \E i \in 1..Len(messages) :
              messages[i].role = "user" /\ messages[i].op = t.op}

\* C9: at most one chat request of the session is in flight.
C9_OneTurnInFlight ==
    Cardinality(ChatTasksOfSession) <= 1

\* C10: the history shown holds only turns of the selected document, and
\* the handle held was created for the selected document.
C10_StaleChatOutcomeDiscarded ==
    /\ \A i \in 1..Len(messages) : messages[i].doc = selectedProtocol
    /\ chatSession # NoSession => chatSession.doc = selectedProtocol

\* The handler calls whose awaited call settles in a step.
TaskSettling(t) == t \in tasks /\ t \notin tasks'

\* C11: when a summary or a deep analysis settles for a document that is no
\* longer the selected one, its result is discarded: the cache stays as it
\* is, and so does the loading state of the panel of the selected document.
C11_StaleAnalysisDiscarded ==
    [][\A t \in tasks :
          (TaskSettling(t) /\ t.kind \in {"summary", "deep"}
                           /\ t.doc # selectedProtocol) =>
              /\ analysisCache' = analysisCache
              /\ loadingAction' = loadingAction
      ]_vars

\* The handler calls that reach an await in a step.
TaskIssued(t) == t \in tasks' /\ t \notin tasks

\* C12: a step that changes the selected document empties the history and
\* drops the handle, and a turn submitted for a document is never sent on a
\* handle that was created for another document.
C12_HandleNeverReusedAcrossDocuments ==
    [][/\ selectedProtocol' # selectedProtocol =>
              /\ messages' = <<>>
              /\ chatSession' = NoSession
       /\ \A t \in tasks' :
              (TaskIssued(t) /\ t.kind = "send") => t.session.doc = t.doc
      ]_vars

\* A step in which handleSendMessage runs past its first guard.
TurnSubmitted == mode = "investigator" /\ nextOp' = nextOp + 1

\* C13: a turn submitted while no key is configured appends exactly one
\* assistant turn written by the panel itself, starts no call (no handle
\* creation, no send: the calls in flight are those that were before) and
\* leaves the panel not waiting for a chat response.
C13_NoCredentialNoNetwork ==
    [][(TurnSubmitted /\ geminiKey = "") =>
          /\ Len(messages') = Len(messages) + 1
          /\ SubSeq(messages', 1, Len(messages)) = messages
          /\ messages'[Len(messages')].role = "model"
          /\ messages'[Len(messages')].kind = "noKey"
          /\ tasks' = tasks
          /\ chatSession' = chatSession
          /\ loadingAction' # "chat"
      ]_vars

\* C13 witness: the history holds the one turn written for a submission
\* without a key, nothing is in flight and the panel is idle.
C13_Witness ==
    /\ geminiKey = ""
    /\ Len(messages) = 1
    /\ messages[1].kind = "noKey"
    /\ tasks = {}
    /\ loadingAction = Null

\* A step in which the call awaited by a chat turn fails: createProtocolChat
\* rejects, or sendMessage rejects.
ChatCallFails(t) == CreateSettles(t, FALSE) \/ SendSettles(t, "rejected")

\* C14: when the call of a chat turn fails, handleSendMessage ends without
\* passing the error on: it appends exactly one assistant turn that reports
\* the failure of that turn as the last entry of the history, its call is no
\* longer in flight, no other call is started, and the panel is idle again,
\* the chat input accepting a further turn.  Before that step the history
\* holds no assistant turn for the failed turn.
C14_ChatFailureBecomesTurn ==
    [][\A t \in tasks :
          ChatCallFails(t) =>
              /\ \A i \in 1..Len(messages) :
                    messages[i].op = t.op => messages[i].role = "user"
              /\ messages' = Append(messages, [role |-> "model", kind |-> "error",
                                               doc |-> t.doc, op |-> t.op])
              /\ tasks' = tasks \ {t}
              /\ loadingAction' = Null
              /\ ChatInputEnabled'
      ]_vars

\* C14 witness: the first turn failed and was answered by the error turn,
\* and a further turn was submitted after it.
C14_Witness ==
    /\ Len(messages) = 3
    /\ messages[1].role = "user"
    /\ messages[2].kind = "error" /\ messages[2].op = messages[1].op
    /\ messages[3].role = "user"
    /\ \E t \in tasks : t.op = messages[3].op

\* The turn of handler call o waits for its call; its answer is in the
\* history.
TurnInFlight(o) == \E t \in tasks : t.op = o /\ t.kind \in {"create", "send"}
TurnAnswered(o) ==
    \E i \in 1..Len(messages) : messages[i].role = "model" /\ messages[i].op = o

\* C15: a turn submitted with a key configured is appended to the history
\* in the step that starts its call, so before the call settles; the step
\* in which the call settles (with a reply or a failure) keeps the history
\* and appends exactly one assistant turn made for that turn, and no
\* assistant turn for it is there before; and the call in flight leads to
\* that assistant turn.
C15_OptimisticUserTurn ==
    /\ [][/\ (TurnSubmitted /\ geminiKey # "") =>
                \E o \in {nextOp}, p \in {selectedProtocol} :
                    /\ messages' = Append(messages, [role |-> "user", kind |-> "turn",
                                                     doc |-> p, op |-> o])
                    /\ TurnInFlight(o)'
                    /\ ~TurnAnswered(o)'
          /\ \A o \in 1..MaxOps :
                (TurnInFlight(o) /\ ~TurnInFlight(o)') =>
                    /\ ~TurnAnswered(o)
                    /\ Len(messages') = Len(messages) + 1
                    /\ SubSeq(messages', 1, Len(messages)) = messages
                    /\ messages'[Len(messages')].role = "model"
                    /\ messages'[Len(messages')].op = o
         ]_vars
    /\ \A o \in 1..MaxOps : TurnInFlight(o) ~> TurnAnswered(o)

\* C15 witness: a user turn is in the history while its call is in flight.
C15_Witness ==
    /\ Len(messages) = 1
    /\ messages[1].role = "user"
    /\ TurnInFlight(messages[1].op)
    /\ loadingAction = "chat"

(***************************************************************************)
(* Properties of services/gemini as the panel calls it (SpecPanel)         *)
(***************************************************************************)

\* C16: whenever a summary request of the panel settles, generateFastSummary
\* has returned a string for the key and the model outcome of that request
\* and has not thrown, whatever went wrong (no key, key or request rejected).
C16_FastSummaryNeverRaises ==
    [][\A t \in tasks : \A o \in ModelOutcomes :
          SummarySettles(t, o) => ~generateFastSummary(t.key, o).threw
      ]_vars

\* What the panel renders from for the selected document besides the
\* loading flag.
PanelShown == <<currentCache, mode, messages, input>>

\* C17: a step in which the model request of a deep analysis of the
\* selected document is rejected (generateDeepAnalysis throws) leaves the panel in a state that shows the failure: something the panel
\* renders from, other than the loading flag going back to idle, differs
\* from what it was while the request ran, so the state after the failure
\* is not the one of a document whose deep analysis was never requested.
C17_DeepFailureDistinguishable ==
    [][\A t \in tasks : \A o \in ModelOutcomes :
          (DeepAnalysisSettles(t, o) /\ o = "rejected" /\ ~GetClientThrows(t.key)
                                     /\ generateDeepAnalysis(t.key, o).threw
                                     /\ t.doc = selectedProtocol) =>
              PanelShown' # PanelShown
      ]_vars

(***************************************************************************)
(* Properties of the key verification (checked under SpecVerify)           *)
(***************************************************************************)

\* C18: in what verifyGeminiKey returned, a tier whose own probe has come
\* back with a text is reported true, whatever the probe of the other tier
\* did, and a tier whose own probe was rejected is reported false.
C18_TiersReportedIndependently ==
    geminiVerdict.state = "returned" =>
        /\ flashProbe = "text" => geminiVerdict.flash
        /\ proProbe = "text" => geminiVerdict.pro
        /\ ProbeRejected(flashProbe) => ~geminiVerdict.flash
        /\ ProbeRejected(proProbe) => ~geminiVerdict.pro

\* C19: verifyGeminiKey has returned only when both probes have settled; a
\* rejected probe makes it return flash = false and pro = false with a
\* message, and a result without a rejected probe carries no message.
C19_VerdictAfterBothProbesJoined ==
    geminiVerdict.state = "returned" =>
        /\ flashProbe # ProbePending
        /\ proProbe # ProbePending
        /\ (ProbeRejected(flashProbe) \/ ProbeRejected(proProbe)) =>
              /\ ~geminiVerdict.flash
              /\ ~geminiVerdict.pro
              /\ geminiVerdict.message # NoMessage
        /\ ~(ProbeRejected(flashProbe) \/ ProbeRejected(proProbe)) =>
              geminiVerdict.message = NoMessage

\* C20: when handleVerifyGemini has ended and the model API rejected both
\* probes, the bundestag flag of the verification result is true exactly
\* when the smartFetch call of verifyBundestagKey resolved.
C20_BundestagFlagIndependent ==
    (/\ verificationResult.set
     /\ ~verifyingKey
     /\ ProbeRejected(flashProbe)
     /\ ProbeRejected(proProbe)) =>
        /\ bundestagVerdict.kind \in {"json", "error"}
        /\ verificationResult.bundestag = verifyBundestagKey(bundestagVerdict)

\* C20 witness: both probes were rejected, the document API accepted the
\* key, and the result reports the document API as reachable and both
\* tiers as not.
C20_Witness ==
    /\ verificationResult.set
    /\ ~verifyingKey
    /\ ProbeRejected(flashProbe)
    /\ ProbeRejected(proProbe)
    /\ bundestagVerdict = Json
    /\ verificationResult.bundestag
    /\ ~verificationResult.flash
    /\ ~verificationResult.pro
    /\ verificationResult.message # NoMessage

(***************************************************************************)
(* Properties of updateCache (checked under SpecCache)                     *)
(***************************************************************************)

SummaryOnly(v) == [f \in {"summary"} |-> v]
DeepOnly(v) == [f \in {"deepAnalysis"} |-> v]

\* C21: for the cache held and every partial update of every document, the
\* merge sets exactly the fields of the update and leaves the other field
\* of that entry and the entries of the other documents as they are;
\* merging the update a second time changes nothing; and a summary-only and
\* a deepAnalysis-only update of one document give the same cache in
\* either order.
C21_MergeFieldWise ==
    \A id \in PanelDocs :
        /\ \A data \in PartialUpdates :
              LET once == updateCache(analysisCache, id, data)
              IN /\ \A f \in CacheFields :
                       once[id][f] = IF f \in DOMAIN data THEN data[f]
                                     ELSE analysisCache[id][f]
                 /\ \A other \in PanelDocs \ {id} : once[other] = analysisCache[other]
                 /\ updateCache(once, id, data) = once
        /\ \A v, w \in CacheValues :
              updateCache(updateCache(analysisCache, id, SummaryOnly(v)), id, DeepOnly(w))
                = updateCache(updateCache(analysisCache, id, DeepOnly(w)), id, SummaryOnly(v))

\* C21 witness: a summary-only update of a document was merged into an
\* entry that held a deep analysis, which is still there; the other
\* document's entry holds another summary.
C21_Witness ==
    /\ analysisCache[<<21, 1, 1>>].summary = [from |-> <<21, 1, 1>>, text |-> "a"]
    /\ analysisCache[<<21, 1, 1>>].deepAnalysis = [from |-> <<21, 1, 1>>, text |-> "b"]
    /\ analysisCache[<<21, 1, 2>>].summary = [from |-> <<21, 1, 2>>, text |-> "b"]
    /\ analysisCache[<<21, 1, 2>>].deepAnalysis = Absent

(***************************************************************************)
(* Properties of the cache as the panel uses it (checked under SpecPanel)  *)
(***************************************************************************)

FieldOfKind(kind) == IF kind = "summary" THEN "summary" ELSE "deepAnalysis"

\* C22: a summary or deep-analysis request is issued only for a document
\* whose cache entry does not hold that artifact, and a field that holds an
\* artifact is not written again: no later step writes it or changes it.
C22_ArtifactComputedOnce ==
    [][/\ \A t \in tasks' :
              (TaskIssued(t) /\ t.kind \in {"summary", "deep"}) =>
                  analysisCache[t.doc][FieldOfKind(t.kind)] = Absent
       /\ \A d \in PanelDocs : \A f \in CacheFields :
              analysisCache[d][f] # Absent =>
                  /\ analysisCache'[d][f] = analysisCache[d][f]
                  /\ (lastCacheWrite' # lastCacheWrite =>
                          ~(lastCacheWrite'.id = d /\ lastCacheWrite'.field = f))
      ]_vars

(***************************************************************************)
(* Properties of truncateText (checked under SpecPrompt)                   *)
(***************************************************************************)

\* C23: whichever operation built the request, a text longer than the
\* ceiling is sent as its first Ceiling characters followed by the marker
\* and nothing else, and a text of at most the ceiling's length is sent as
\* it is.
C23_TruncationExact ==
    prompt.op # "none" =>
        IF Len(protocolText) > Ceiling
        THEN /\ Len(prompt.sent) = Ceiling + Len(Marker)
             /\ \A i \in 1..Ceiling : prompt.sent[i] = protocolText[i]
             /\ \A i \in 1..Len(Marker) : prompt.sent[Ceiling + i] = Marker[i]
        ELSE prompt.sent = protocolText

\* C23 witness: chat creation was called with a protocolText one character longer
\* than the ceiling and sent its first Ceiling characters and the marker.
C23_Witness ==
    /\ prompt.op = "chat"
    /\ Len(protocolText) = Ceiling + 1
    /\ prompt.sent = SubSeq(protocolText, 1, Ceiling) \o Marker

(***************************************************************************)
(* Properties of the search outcome (checked under SpecSearch)             *)
(***************************************************************************)

\* C24: a step in which a fresh search succeeds with zero documents empties
\* the held set and reports no error: the error state, which a failed
\* fetch sets, stays clear.
C24_EmptyResultIsNoError ==
    [][\A req \in requests :
          (/\ Settling(req) /\ ~req.isLoadMore
           /\ lastSettled' = [id |-> req.id, ok |-> TRUE]
           /\ ServerResponse(req).documents = <<>>) =>
              /\ protocols' = <<>>
              /\ error' = Null
      ]_vars

\* C25: a step in which a fresh search fails sets the error, and the
\* documents held before are no longer held as the result set shown.
C25_FailureReplacesResultList ==
    [][\A req \in requests :
          (/\ Settling(req) /\ ~req.isLoadMore
           /\ lastSettled' = [id |-> req.id, ok |-> FALSE]) =>
              /\ error' # Null
              /\ protocols' = <<>>
      ]_vars

(***************************************************************************)
(* Properties of the chat history (checked under SpecPanel)                *)
(***************************************************************************)

\* C26: a step that keeps the selected document either leaves the history
\* as it is or appends one turn at its end: the history before the step is
\* a prefix of the history after it.
C26_HistoryAppendOnly ==
    [][selectedProtocol' = selectedProtocol =>
          \/ messages' = messages
          \/ /\ Len(messages') = Len(messages) + 1
             /\ SubSeq(messages', 1, Len(messages)) = messages
      ]_vars

\* C26 witness: three turns of the selected document were appended in
\* order: a user turn, the reply to it, and a further user turn.
C26_Witness ==
    /\ Len(messages) = 3
    /\ \A i \in 1..3 : messages[i].doc = selectedProtocol
    /\ messages[1].role = "user"
    /\ messages[2].kind = "reply" /\ messages[2].op = messages[1].op
    /\ messages[3].role = "user" /\ messages[3].op > messages[1].op

\* C27: no step removes an artifact from the cache: a field of a document's
\* entry that is present before a step is present after it.
C27_CacheNeverDeleted ==
    [][\A d \in PanelDocs : \A f \in CacheFields :
          analysisCache[d][f] # Absent => analysisCache'[d][f] # Absent
      ]_vars

\* C27 witness: the summary of the first document is still cached after the
\* second document was selected and given a deep analysis.
C27_Witness ==
    /\ selectedProtocol = <<21, 1, 2>>
    /\ analysisCache[<<21, 1, 1>>].summary # Absent
    /\ analysisCache[<<21, 1, 2>>].deepAnalysis # Absent
    /\ lastCacheWrite.id = <<21, 1, 2>>

\* C28: the handle is created lazily and once per bound document: a handle
\* is held only when the history of the bound document has a user turn,
\* and a creation is started only when no handle is held and no creation
\* started by a turn of the history shown is still pending.
C28_HandleCreatedLazilyOnce ==
    [][/\ chatSession' # NoSession =>
              \E i \in 1..Len(messages') : messages'[i].role = "user"
       /\ \A t \in tasks' :
              (TaskIssued(t) /\ t.kind = "create") =>
                  /\ chatSession = NoSession
                  /\ ~\E u \in ChatTasksOfSession : u.kind = "create"
      ]_vars

\* C29: every artifact in the cache is held by the entry of the document it
\* was computed from, and a step in which a summary or a deep analysis
\* settles changes at most the entry of the document it was started for,
\* whichever document is selected then.
C29_WriteAddressedToOwnDocument ==
    /\ [][\A t \in tasks :
             (TaskSettling(t) /\ t.kind \in {"summary", "deep"}) =>
                 \A d \in PanelDocs \ {t.doc} : analysisCache'[d] = analysisCache[d]
         ]_vars
    /\ [](\A d \in PanelDocs : \A f \in CacheFields :
             analysisCache[d][f] # Absent => analysisCache[d][f].from = d)

\* C29 witness: the summary started for the first document was written to
\* its entry while the second document is selected, whose entry is empty
\* and whose own deep analysis is still in flight.
C29_Witness ==
    /\ selectedProtocol = <<21, 1, 2>>
    /\ lastCacheWrite.id = <<21, 1, 1>> /\ lastCacheWrite.op = 1
    /\ analysisCache[<<21, 1, 1>>].summary.from = <<21, 1, 1>>
    /\ analysisCache[<<21, 1, 2>>] = EmptyEntry
    /\ loadingAction = Null
    /\ \E t \in tasks : t.kind = "deep" /\ t.doc = <<21, 1, 2>> /\ t.op = 2

(***************************************************************************)
(* Properties of the load-more request (checked under SpecSearch)          *)
(***************************************************************************)

\* C30: a load-more request is sent with the filters of the fresh search
\* whose response issued the cursor it carries: its legislative period is
\* the one the cursor was issued for.
C30_LoadMoreKeepsFilters ==
    [][\A req \in requests' :
          (Issued(req) /\ req.isLoadMore) => req.wahlperiode = req.cursor.wp
      ]_vars

\* C31: when fresh searches overlap, the held set and cursor end up being
\* those of the most recently issued fresh search whatever the arrival
\* order: once the response of the latest fresh search has been applied,
\* the response of an older fresh search arriving after it changes neither
\* the held set nor the cursor.
C31_LatestFreshSearchWins ==
    [][\A req \in requests :
          (/\ Settling(req)
           /\ ~req.isLoadMore
           /\ req.id < lastFresh
           /\ lastSettled = [id |-> lastFresh, ok |-> TRUE]) =>
              /\ protocols' = protocols
              /\ cursor' = cursor
      ]_vars

\* C32: for every document and operation kind (summary, deep analysis) at
\* most one request of that kind is in flight at a time, whatever other
\* operations are started or finish in the meantime (a call made without
\* a key sends no request and is not counted).
C32_OneAnalysisPerDocumentAndKind ==
    \A d \in PanelDocs : \A kind \in {"summary", "deep"} :
        Cardinality({t \in tasks : /\ t.kind = kind
                                   /\ t.doc = d
                                   /\ ~GetClientThrows(t.key)}) <= 1

\* C33: in the combined verification a failure of the document-API check
\* does not change the reported model-tier results: once the verification
\* has finished and verifyGeminiKey has returned, the reported flash and pro
\* flags equal the values verifyGeminiKey returned, whether
\* verifyBundestagKey succeeded or failed.
C33_TiersSurviveBundestagFailure ==
    (/\ verificationResult.set
     /\ ~verifyingKey
     /\ geminiVerdict.state = "returned") =>
        /\ verificationResult.flash = geminiVerdict.flash
        /\ verificationResult.pro = geminiVerdict.pro

\* C34: a failed load more (fetchProtocols rejected, or the response has no
\* documents field) leaves the held document set, the held cursor and the
\* selection unchanged and only sets the error state and ends the loading
\* flags, so that the load more of the held cursor is offered again.
C34_FailedLoadMoreKeepsState ==
    [][\A req \in requests :
          (/\ Settling(req)
           /\ req.isLoadMore
           /\ lastSettled' = [id |-> req.id, ok |-> FALSE]) =>
              /\ protocols' = protocols
              /\ cursor' = cursor
              /\ selectedProtocol' = selectedProtocol
              /\ error' \in {FormatMsg, ConnectionMsg}
              /\ ~loadingMore'
              /\ (Len(protocols) > 0 /\ cursor # UndefinedCursor) =>
                     LoadMoreAvailable'
      ]_vars

\* C34 witness: the load more of the first page (request 2) failed, the first
\* page and its cursor are still held, and the load more was issued again
\* (request 3) with the same cursor.
C34_Witness ==
    /\ lastFresh = 1
    /\ lastSettled = [id |-> 2, ok |-> FALSE]
    /\ Len(protocols) = PageSize
    /\ cursor # UndefinedCursor
    /\ \E r \in requests : r.id = 3 /\ r.isLoadMore /\ r.cursor = cursor

====
